---------------------------- MODULE Spec2Model ----------------------------
(***************************************************************************)
(* Market-Analysis: the impact scorer (EventAnalyzer.analyze_influences),   *)
(* the sentiment pass (EventAnalyzer.analyze_sentiments), the price loop    *)
(* (PriceAnalyzer.analyze_price_changes) and the correlation store          *)
(* (DatabaseManager.save_analysis_results and the writers around it), as    *)
(* state machines.                                                          *)
(*                                                                         *)
(* Time is counted in ticks, TicksPerHour ticks to the hour.  Floats are   *)
(* modelled as exact rationals <<numerator, denominator>> with a positive  *)
(* denominator, None as the empty tuple.                                   *)
(***************************************************************************)
EXTENDS Integers, Sequences, FiniteSets, TLC

VARIABLES
    price_changes,   \* table price_changes: sequence of rows, id = index
    events,          \* table events: sequence of rows, id = index
    correlations,    \* table event_price_correlations: sequence of rows
    frame,           \* per writer: the frame of its save_analysis_results call
    hist,            \* bookkeeping over the calls made on the store
    scorer,          \* the frame of the analyze_influences calls
    driver,          \* the frame of main() or of an analyze_price_changes call
    annotator        \* the frame of the analyze_sentiments calls

vars ==
    <<price_changes, events, correlations, frame, hist, scorer, driver, annotator>>

-----------------------------------------------------------------------------
(* Bounds                                                                  *)

MaxEvents == 2       \* longest event list handed to analyze_influences
MaxCorrelations == 2 \* longest correlations list of a save_analysis_results payload
MaxCalls == 2        \* save_analysis_results calls made on the store
MaxFaults == 1       \* storage faults (a failing commit) injected
MaxRuns == 2         \* runs of main()
TicksPerHour == 2    \* resolution of time: half hours

-----------------------------------------------------------------------------
(* Exact arithmetic on the floats of the scorer                            *)

None == <<>>

Rat(n, d) == <<n, d>>

RatMul(a, b) == <<a[1] * b[1], a[2] * b[2]>>

RatLeq(a, b) == a[1] * b[2] <= b[1] * a[2]

RatLt(a, b) == a[1] * b[2] < b[1] * a[2]

RatEq(a, b) == a[1] * b[2] = b[1] * a[2]

RatAbs(a) == IF a[1] < 0 THEN <<-a[1], a[2]>> ELSE a

\* Python's min(a, b): b only when b < a
RatMin(a, b) == IF RatLt(b, a) THEN b ELSE a

Abs(x) == IF x < 0 THEN -x ELSE x

One == Rat(1, 1)

Zero == Rat(0, 1)

-----------------------------------------------------------------------------
(* models/price_event.py                                                   *)

\* the dataclass Event
Event(ts, type, src, descr, sent) ==
    [timestamp |-> ts, event_type |-> type, source |-> src,
     description |-> descr, sentiment_score |-> sent]

\* the fields of the dataclass PriceEventCorrelation; none has a default
PriceEventCorrelationFields == {"event", "impact_score", "confidence_level"}

\* the generated __init__ of PriceEventCorrelation: TypeError unless every
\* field without a default is given
PriceEventCorrelation(kwargs) ==
    IF DOMAIN kwargs = PriceEventCorrelationFields
    THEN [ok |-> TRUE, value |-> kwargs, error |-> "none"]
    ELSE [ok |-> FALSE, value |-> <<>>, error |-> "TypeError"]

-----------------------------------------------------------------------------
(* analysis/event_analyzer.py: analyze_influences                          *)

\* the time difference taken with its sign, without abs()
TimeFactor_signed(T, ts) == Rat(TicksPerHour, TicksPerHour + (T - ts))

\* 1. time_diff in hours is |T - ts| / TicksPerHour; time_factor = 1 / (1 + time_diff)
TimeFactor(T, ts) == Rat(TicksPerHour, TicksPerHour + Abs(T - ts))

\* the comparison of the signs with >= and <= for > and <
SentimentFactor_nonstrict(P, s) ==
    IF s # None
    THEN IF (P[1] >= 0 /\ s[1] >= 0) \/ (P[1] <= 0 /\ s[1] <= 0)
         THEN RatAbs(s)
         ELSE Rat(1, 2)
    ELSE One

\* 2. sentiment against the direction of the price change
SentimentFactor(P, s) ==
    IF s # None
    THEN IF (P[1] > 0 /\ s[1] > 0) \/ (P[1] < 0 /\ s[1] < 0)
         THEN RatAbs(s)
         ELSE Rat(1, 2)
    ELSE One

\* the event type compared without regard to case
EventTypeFactor_caseless(type) ==
    IF type \in {"ETF", "etf"} THEN Rat(3, 2)
    ELSE IF type \in {"REGULATION", "regulation"} THEN Rat(6, 5)
    ELSE One

\* 3. event type
EventTypeFactor(type) ==
    IF type = "ETF" THEN Rat(3, 2)
    ELSE IF type = "REGULATION" THEN Rat(6, 5)
    ELSE One

Product(T, P, e) ==
    RatMul(RatMul(TimeFactor(T, e.timestamp),
                  SentimentFactor(P, e.sentiment_score)),
           EventTypeFactor(e.event_type))

\* the score without its cap
ImpactScore_uncapped(T, P, e) == Product(T, P, e)

ImpactScore(T, P, e) == RatMin(One, Product(T, P, e))

\* list.sort(key=impact_score, reverse=True): stable, equal keys keep their order
RECURSIVE InsertDesc(_, _)
InsertDesc(c, sorted) ==
    IF sorted = <<>> THEN <<c>>
    ELSE IF RatLt(Head(sorted).impact_score, c.impact_score)
         THEN <<c>> \o sorted
         ELSE <<Head(sorted)>> \o InsertDesc(c, Tail(sorted))

RECURSIVE SortDesc(_, _)
SortDesc(todo, sorted) ==
    IF todo = <<>> THEN sorted
    ELSE SortDesc(Tail(todo), InsertDesc(Head(todo), sorted))

\* inputs of the scorer
ScorerTimes == {0, 1, 2, 4}

ScorerTypes == {"ETF", "REGULATION", "news"}

ScorerSentiments == {None, Rat(-3, 10), Rat(0, 10), Rat(8, 10), Rat(10, 10)}

ScorerEvents ==
    {Event(ts, type, "cryptocompare", "title", s) :
        ts \in ScorerTimes, type \in ScorerTypes, s \in ScorerSentiments}

PriceChangeDates == {2}

PriceChangePercents == {Rat(-15, 1), Rat(0, 1), Rat(15, 1)}

RECURSIVE SeqsUpTo(_, _)
SeqsUpTo(S, n) ==
    IF n = 0 THEN {<<>>}
    ELSE LET shorter == SeqsUpTo(S, n - 1)
         IN  shorter \cup {Append(q, x) : q \in {r \in shorter : Len(r) = n - 1}, x \in S}

ScorerIdle ==
    [pc |-> "idle", price_change_date |-> 0, price_change_percent |-> Zero,
     events |-> <<>>, i |-> 1, causes |-> <<>>,
     time_factor |-> One, sentiment_factor |-> One, event_type_factor |-> One,
     product |-> One, impact_score |-> One, error |-> "none",
     call |-> 0, given |-> <<>>, first |-> <<>>]

\* EventAnalyzer(price_change_date, price_change_percent, db_manager) and the
\* entry of analyze_influences(events): causes = []
ScorerCalled(T, P, evs) ==
    [ScorerIdle EXCEPT !.pc = "loop", !.price_change_date = T,
                       !.price_change_percent = P, !.events = evs,
                       !.call = 1,
                       !.given = [price_change_date |-> T,
                                  price_change_percent |-> P, events |-> evs]]

\* the loop body with the sentiment factor written back into the event
ScoreEvent_storing ==
    /\ scorer.pc = "loop"
    /\ scorer.i <= Len(scorer.events)
    /\ LET e == scorer.events[scorer.i]
           T == scorer.price_change_date
           P == scorer.price_change_percent
           score == ImpactScore(T, P, e)
           cause == PriceEventCorrelation([event |-> e, impact_score |-> score])
           computed == [scorer EXCEPT
                          !.events[scorer.i].sentiment_score =
                              SentimentFactor(P, e.sentiment_score),
                          !.time_factor = TimeFactor(T, e.timestamp),
                          !.sentiment_factor = SentimentFactor(P, e.sentiment_score),
                          !.event_type_factor = EventTypeFactor(e.event_type),
                          !.product = Product(T, P, e),
                          !.impact_score = score]
       IN  scorer' = IF cause.ok
                     THEN [computed EXCEPT !.causes = Append(@, cause.value),
                                           !.i = @ + 1]
                     ELSE [computed EXCEPT !.pc = "raised", !.error = cause.error]
    /\ UNCHANGED <<price_changes, events, correlations, frame, hist, driver, annotator>>

\* one iteration of the for loop
ScoreEvent ==
    /\ scorer.pc = "loop"
    /\ scorer.i <= Len(scorer.events)
    /\ LET e == scorer.events[scorer.i]
           T == scorer.price_change_date
           P == scorer.price_change_percent
           score == ImpactScore(T, P, e)
           cause == PriceEventCorrelation([event |-> e, impact_score |-> score])
           computed == [scorer EXCEPT
                          !.time_factor = TimeFactor(T, e.timestamp),
                          !.sentiment_factor = SentimentFactor(P, e.sentiment_score),
                          !.event_type_factor = EventTypeFactor(e.event_type),
                          !.product = Product(T, P, e),
                          !.impact_score = score]
       IN  scorer' = IF cause.ok
                     THEN [computed EXCEPT !.causes = Append(@, cause.value),
                                           !.i = @ + 1]
                     ELSE [computed EXCEPT !.pc = "raised", !.error = cause.error]
    /\ UNCHANGED <<price_changes, events, correlations, frame, hist, driver, annotator>>

\* causes.sort(...); return causes
SortAndReturn ==
    /\ scorer.pc = "loop"
    /\ scorer.i > Len(scorer.events)
    /\ scorer' = [scorer EXCEPT !.causes = SortDesc(@, <<>>), !.pc = "returned"]
    /\ UNCHANGED <<price_changes, events, correlations, frame, hist, driver, annotator>>

\* the caller calls analyze_influences once more, on the same analyzer with
\* the same list
AnalyzeInfluencesAgain ==
    /\ scorer.pc \in {"returned", "raised"}
    /\ scorer.call = 1
    /\ scorer' = [scorer EXCEPT
           !.pc = "loop", !.call = 2, !.i = 1, !.causes = <<>>, !.error = "none",
           !.first = [pc |-> scorer.pc, causes |-> scorer.causes,
                      error |-> scorer.error, impact_score |-> scorer.impact_score]]
    /\ UNCHANGED <<price_changes, events, correlations, frame, hist, driver, annotator>>

\* what NewsCollector.EVENT_TYPES maps to
CollectorTags == {"news", "regulation", "market", "technical"}

\* events of every type, at the time of the price change
TaggedEvents ==
    {Event(ts, type, "cryptocompare", "title", None) :
        ts \in PriceChangeDates, type \in ScorerTypes \cup CollectorTags}

\* events for a repeated call
RescoredEvents ==
    {Event(ts, type, "cryptocompare", "title", s) :
        ts \in {0, 2}, type \in {"ETF", "news"},
        s \in {None, Rat(-3, 10), Rat(8, 10)}}

-----------------------------------------------------------------------------
(* analysis/event_analyzer.py: analyze_sentiments                          *)

\* analyzer.polarity_scores(description)['compound']: the lexicon gives each
\* text one score in [-1, 1]; three texts stand for a positive, a negative
\* and a neutral one
Compound(description) ==
    CASE description = "good" -> Rat(44, 100)
      [] description = "bad" -> Rat(-54, 100)
      [] OTHER -> Zero

\* the test "not event.sentiment_score" for "event.sentiment_score is None"
WithSentiment_falsy(event) ==
    IF event.sentiment_score = None \/ event.sentiment_score[1] = 0
    THEN Event(event.timestamp, event.event_type, event.source,
               event.description, Compound(event.description))
    ELSE event

\* the body of the for loop: what is appended to result for one event
WithSentiment(event) ==
    IF event.sentiment_score = None
    THEN Event(event.timestamp, event.event_type, event.source,
               event.description, Compound(event.description))
    ELSE event

\* inputs of analyze_sentiments
SentimentEvents ==
    {Event(ts, "news", "cryptocompare", descr, s) :
        ts \in {1, 2}, descr \in {"good", "bad", "flat"},
        s \in {None, Zero, Rat(8, 10)}}

AnnotatorIdle ==
    [pc |-> "idle", call |-> 0, events |-> <<>>, i |-> 1, result |-> <<>>,
     given |-> <<>>, first |-> <<>>]

\* the entry of analyze_sentiments(events): result = []
AnnotatorCalled(evs) ==
    [AnnotatorIdle EXCEPT !.pc = "loop", !.call = 1, !.events = evs, !.given = evs]

\* one iteration of the for loop
AnnotateEvent ==
    /\ annotator.pc = "loop"
    /\ annotator.i <= Len(annotator.events)
    /\ annotator' = [annotator EXCEPT
           !.result = Append(@, WithSentiment(annotator.events[annotator.i])),
           !.i = @ + 1]
    /\ UNCHANGED <<price_changes, events, correlations, frame, hist, scorer, driver>>

\* return result
ReturnResult ==
    /\ annotator.pc = "loop"
    /\ annotator.i > Len(annotator.events)
    /\ annotator' = [annotator EXCEPT !.pc = "returned"]
    /\ UNCHANGED <<price_changes, events, correlations, frame, hist, scorer, driver>>

\* the caller hands the list it got back to analyze_sentiments once more
AnalyzeSentimentsAgain ==
    /\ annotator.pc = "returned"
    /\ annotator.call = 1
    /\ annotator' = [annotator EXCEPT
           !.pc = "loop", !.call = 2, !.events = annotator.result,
           !.first = annotator.result, !.i = 1, !.result = <<>>]
    /\ UNCHANGED <<price_changes, events, correlations, frame, hist, scorer, driver>>

-----------------------------------------------------------------------------
(* models/database.py: the three tables                                    *)

\* a row of price_changes
PriceChange(ts, before, after, pct, vol) ==
    [timestamp |-> ts, price_before |-> before, price_after |-> after,
     percentage_change |-> pct, volume |-> vol]

\* what the declarative class EventPriceCorrelation has as attributes; its
\* constructor raises TypeError on any other keyword
EventPriceCorrelationAttributes ==
    {"id", "event_id", "price_change_id", "impact_score", "created_at",
     "event", "price_change"}

EventPriceCorrelation(kwargs) ==
    IF DOMAIN kwargs \subseteq EventPriceCorrelationAttributes
    THEN [ok |-> TRUE, error |-> "none",
          value |-> [event_id |-> kwargs.event_id,
                     price_change_id |-> kwargs.price_change_id,
                     impact_score |-> kwargs.impact_score]]
    ELSE [ok |-> FALSE, error |-> "TypeError", value |-> <<>>]

-----------------------------------------------------------------------------
(* database/db_manager.py: the lookups by natural key                      *)

\* .first() of the matching rows: the lowest id, 0 for None
First(ids) == IF ids = {} THEN 0 ELSE CHOOSE i \in ids : \A j \in ids : i <= j

\* the lookup with the percentage compared to the wrong column
get_price_change_by_unique_wrong_column(rows, timestamp, percentage_change) ==
    First({i \in DOMAIN rows :
              /\ rows[i].timestamp = timestamp
              /\ RatEq(rows[i].price_after, percentage_change)})

get_price_change_by_unique(rows, timestamp, percentage_change) ==
    First({i \in DOMAIN rows :
              /\ rows[i].timestamp = timestamp
              /\ RatEq(rows[i].percentage_change, percentage_change)})

get_event_by_unique(rows, event) ==
    First({i \in DOMAIN rows :
              /\ rows[i].timestamp = event.timestamp
              /\ rows[i].event_type = event.event_type
              /\ rows[i].source = event.source
              /\ rows[i].description = event.description})

get_correlation_by_unique(rows, event_id, price_change_id) ==
    First({i \in DOMAIN rows :
              /\ rows[i].event_id = event_id
              /\ rows[i].price_change_id = price_change_id})

-----------------------------------------------------------------------------
(* database/db_manager.py: save_analysis_results, one step per statement   *)
(* that reads or writes the storage.  Each writer is a DatabaseManager     *)
(* with a session of its own on the same storage.                          *)

Writers == {1, 2}

\* what the callers hand in
PayloadPriceChanges ==
    {PriceChange(ts, Rat(100, 1), Rat(105, 1), Rat(5, 1), None) : ts \in {1, 2}}

PayloadEvents ==
    {Event(1, "ETF", "cryptocompare", "a", None),
     Event(2, "news", "cryptocompare", "b", None)}

PayloadCorrelations ==
    {PriceEventCorrelation([event |-> e, impact_score |-> sc,
                            confidence_level |-> Zero]).value :
        e \in PayloadEvents, sc \in {Rat(1, 2), One}}

Vias == {"DatabaseManager", "EventAnalyzer"}

\* payloads that meet stored rows with other values in the fields outside
\* the natural key: the price change as analyze_causes builds it
\* (price_before = price_after = 0.0), an event with the sentiment inferred
ReusePriceChanges ==
    {PriceChange(1, Rat(100, 1), Rat(105, 1), Rat(5, 1), None),
     PriceChange(1, Zero, Zero, Rat(5, 1), None)}

ReuseEvents ==
    {Event(1, "ETF", "cryptocompare", "a", None),
     Event(1, "ETF", "cryptocompare", "a", Rat(8, 10)),
     Event(2, "news", "cryptocompare", "b", None)}

ReuseCorrelations ==
    {PriceEventCorrelation([event |-> e, impact_score |-> One,
                            confidence_level |-> Zero]).value : e \in ReuseEvents}

FrameIdle ==
    [pc |-> "idle", via |-> "DatabaseManager",
     price_change |-> <<>>, correlations |-> <<>>,
     db_price_change |-> 0, i |-> 1, db_event |-> 0,
     error |-> "none", raised |-> FALSE, seen |-> "none",
     faulted |-> FALSE, repeat |-> FALSE, before |-> <<>>,
     retry |-> FALSE, origin |-> <<>>]

HistInit ==
    [calls |-> 0, faults |-> 0, runs |-> 0, overlapped |-> FALSE,
     last |-> [valid |-> FALSE, price_change |-> <<>>, correlations |-> <<>>,
               faulted |-> FALSE]]

Store == <<price_changes, events, correlations>>

Running(w) == frame[w].pc \notin {"idle", "done"}

\* whether a commit may fail here: a storage fault is an input
Faults == IF hist.faults < MaxFaults THEN {FALSE, TRUE} ELSE {FALSE}

NoteFault(fault) ==
    IF fault
    THEN [hist EXCEPT !.faults = @ + 1, !.last.faulted = TRUE]
    ELSE hist

\* the head of "for correlation in correlations": the next one, or line 125
LoopHead(f, i) ==
    [f EXCEPT !.i = i,
              !.pc = IF i <= Len(f.correlations) THEN "get_event" ELSE "return"]

\* a caller enters save_analysis_results(price_change, correlations), directly
\* or through EventAnalyzer.save_analysis_results
Call(w, via, pch, corrs, maxCalls) ==
    /\ ~Running(w)
    /\ hist.calls < maxCalls
    /\ frame' = [frame EXCEPT ![w] =
           [FrameIdle EXCEPT
              !.pc = "get_price_change", !.via = via,
              !.price_change = pch, !.correlations = corrs,
              !.before = Store,
              !.repeat = /\ \A v \in Writers : ~Running(v)
                         /\ hist.last.valid
                         /\ ~hist.last.faulted
                         /\ hist.last.price_change = pch
                         /\ hist.last.correlations = corrs,
              \* the payload of this writer's last call, which a storage
              \* fault ended after it had committed rows, submitted again
              !.retry = /\ frame[w].pc = "done"
                        /\ frame[w].faulted
                        /\ frame[w].before # Store
                        /\ frame[w].price_change = pch
                        /\ frame[w].correlations = corrs,
              !.origin = frame[w].before]]
    /\ hist' = [hist EXCEPT
           !.calls = @ + 1,
           !.overlapped = @ \/ \E v \in Writers \ {w} : Running(v),
           !.last = [valid |-> TRUE, price_change |-> pch,
                     correlations |-> corrs, faulted |-> FALSE]]
    /\ UNCHANGED <<price_changes, events, correlations, scorer, driver, annotator>>

\* lines 102-106
GetPriceChange(w) ==
    /\ frame[w].pc = "get_price_change"
    /\ LET f == frame[w]
           found == get_price_change_by_unique(price_changes,
                        f.price_change.timestamp, f.price_change.percentage_change)
       IN  frame' = [frame EXCEPT ![w] =
               IF found # 0
               THEN LoopHead([f EXCEPT !.db_price_change = found], 1)
               ELSE [f EXCEPT !.pc = "save_price_change"]]
    /\ UNCHANGED <<price_changes, events, correlations, hist, scorer, driver, annotator>>

\* lines 107-113 with save_price_change, lines 15-34: add, commit; a failing
\* commit is rolled back and raised
SavePriceChange(w) ==
    /\ frame[w].pc = "save_price_change"
    /\ \E fault \in Faults :
         LET f == frame[w]
             row == PriceChange(f.price_change.timestamp, f.price_change.price_before,
                                f.price_change.price_after,
                                f.price_change.percentage_change, f.price_change.volume)
         IN  /\ price_changes' = IF fault THEN price_changes
                                 ELSE Append(price_changes, row)
             /\ frame' = [frame EXCEPT ![w] =
                    IF fault
                    THEN [f EXCEPT !.pc = "except", !.error = "StorageError",
                                   !.faulted = TRUE]
                    ELSE LoopHead([f EXCEPT !.db_price_change = Len(price_changes) + 1], 1)]
             /\ hist' = NoteFault(fault)
    /\ UNCHANGED <<events, correlations, scorer, driver, annotator>>

\* the lookup that brings the stored row up to date with the payload
GetEvent_updating(w) ==
    /\ frame[w].pc = "get_event"
    /\ LET f == frame[w]
           e == f.correlations[f.i].event
           found == get_event_by_unique(events, e)
       IN  /\ frame' = [frame EXCEPT ![w] =
                  IF found # 0
                  THEN [f EXCEPT !.db_event = found, !.pc = "get_correlation"]
                  ELSE [f EXCEPT !.pc = "save_event"]]
           /\ events' = IF found # 0
                         THEN [events EXCEPT ![found].sentiment_score = e.sentiment_score]
                         ELSE events
    /\ UNCHANGED <<price_changes, correlations, hist, scorer, driver, annotator>>

\* lines 117-118
GetEvent(w) ==
    /\ frame[w].pc = "get_event"
    /\ LET f == frame[w]
           found == get_event_by_unique(events, f.correlations[f.i].event)
       IN  frame' = [frame EXCEPT ![w] =
               IF found # 0
               THEN [f EXCEPT !.db_event = found, !.pc = "get_correlation"]
               ELSE [f EXCEPT !.pc = "save_event"]]
    /\ UNCHANGED <<price_changes, events, correlations, hist, scorer, driver, annotator>>

\* save_event without its commit: the object it returns has no id yet
SaveEvent_uncommitted(w) ==
    /\ frame[w].pc = "save_event"
    /\ \E fault \in Faults :
         LET f == frame[w]
         IN  /\ events' = events
             /\ frame' = [frame EXCEPT ![w] =
                    IF fault
                    THEN [f EXCEPT !.pc = "except", !.error = "StorageError",
                                   !.faulted = TRUE]
                    ELSE [f EXCEPT !.db_event = 0, !.pc = "get_correlation"]]
             /\ hist' = NoteFault(fault)
    /\ UNCHANGED <<price_changes, correlations, scorer, driver, annotator>>

\* line 119 with save_event, lines 36-53
SaveEvent(w) ==
    /\ frame[w].pc = "save_event"
    /\ \E fault \in Faults :
         LET f == frame[w]
             e == f.correlations[f.i].event
             row == Event(e.timestamp, e.event_type, e.source, e.description,
                          e.sentiment_score)
         IN  /\ events' = IF fault THEN events ELSE Append(events, row)
             /\ frame' = [frame EXCEPT ![w] =
                    IF fault
                    THEN [f EXCEPT !.pc = "except", !.error = "StorageError",
                                   !.faulted = TRUE]
                    ELSE [f EXCEPT !.db_event = Len(events) + 1,
                                   !.pc = "get_correlation"]]
             /\ hist' = NoteFault(fault)
    /\ UNCHANGED <<price_changes, correlations, scorer, driver, annotator>>

\* lines 121-122
GetCorrelation(w) ==
    /\ frame[w].pc = "get_correlation"
    /\ LET f == frame[w]
           found == get_correlation_by_unique(correlations, f.db_event, f.db_price_change)
       IN  frame' = [frame EXCEPT ![w] =
               IF found # 0
               THEN LoopHead(f, f.i + 1)
               ELSE [f EXCEPT !.pc = "save_correlation"]]
    /\ UNCHANGED <<price_changes, events, correlations, hist, scorer, driver, annotator>>

\* line 123 with save_correlation, lines 55-72: the row is constructed with
\* the keyword confidence_level, then added and committed
SaveCorrelation(w) ==
    /\ frame[w].pc = "save_correlation"
    /\ \E fault \in Faults :
         LET f == frame[w]
             c == f.correlations[f.i]
             made == EventPriceCorrelation(
                         [event_id |-> f.db_event,
                          price_change_id |-> f.db_price_change,
                          impact_score |-> c.impact_score,
                          confidence_level |-> c.confidence_level])
             failed == ~made.ok \/ fault
         IN  /\ fault => made.ok
             /\ correlations' = IF failed THEN correlations
                                ELSE Append(correlations, made.value)
             /\ frame' = [frame EXCEPT ![w] =
                    IF failed
                    THEN [f EXCEPT !.pc = "except",
                                   !.error = IF made.ok THEN "StorageError"
                                             ELSE made.error,
                                   !.faulted = fault]
                    ELSE LoopHead(f, f.i + 1)]
             /\ hist' = NoteFault(fault)
    /\ UNCHANGED <<price_changes, events, scorer, driver, annotator>>

\* line 125, or lines 126-129: rollback (every insert so far is committed
\* already, nothing is pending), log, raise.  Through
\* EventAnalyzer.save_analysis_results (event_analyzer.py, lines 109-114)
\* the exception is logged and not raised again.
Finish(w) ==
    /\ frame[w].pc \in {"return", "except"}
    /\ LET f == frame[w]
           raised == f.pc = "except"
       IN  frame' = [frame EXCEPT ![w] =
               [f EXCEPT !.pc = "done", !.raised = raised,
                         !.seen = IF raised /\ f.via = "DatabaseManager"
                                  THEN "raised" ELSE "returned"]]
    /\ UNCHANGED <<price_changes, events, correlations, hist, scorer, driver, annotator>>

Step(w) ==
    \/ GetPriceChange(w)
    \/ SavePriceChange(w)
    \/ GetEvent(w)
    \/ SaveEvent(w)
    \/ GetCorrelation(w)
    \/ SaveCorrelation(w)
    \/ Finish(w)

-----------------------------------------------------------------------------
(* main.py with analysis/price_analyzer.py and analysis/news_collector.py  *)

Day == 24 * TicksPerHour

\* main: start_date = end_date - timedelta(days=7)
WindowDays == 7

\* main: PriceAnalyzer(db_manager, threshold_percent=0.1)
threshold_percent == Rat(1, 10)

\* the exchange: the daily candle c opens at c * Day and closes at Close(c);
\* one candle is quoted with a close of 0.0
Close(c) == IF c = 12 THEN 0 ELSE IF c % 3 = 0 THEN 100 ELSE 110

\* fetch_ohlcv(since=timestamp, limit=1): the first daily candle that opens at
\* or after the timestamp
CandleSince(ts) == (ts + Day - 1) \div Day

\* get_bitcoin_price: the close of that candle; None when there is no such
\* candle yet or the exchange raises.  The caller tests the price for truth
\* only, so None and 0.0 are one value here, 0
get_bitcoin_price(ts, now, down) ==
    IF ts \in down \/ CandleSince(ts) * Day > now THEN 0
    ELSE Close(CandleSince(ts))

\* ((current_price - previous_price) / previous_price) * 100
PercentChange(current_price, previous_price) ==
    Rat((current_price - previous_price) * 100, previous_price)

\* the loop body without the comparison with the threshold
analyze_day_unchecked(current_time, rows, now, down, fault) ==
    LET current_price == get_bitcoin_price(current_time, now, down)
        previous_price == get_bitcoin_price(current_time - Day, now, down)
        row == PriceChange(current_time, Rat(previous_price, 1),
                           Rat(current_price, 1),
                           PercentChange(current_price, previous_price), None)
    IN  IF current_price # 0 /\ previous_price # 0 /\ ~fault
        THEN Append(rows, row) ELSE rows

\* the body of the while loop of analyze_price_changes with
\* _save_price_change: a row is added and committed without a lookup; a
\* failing commit is logged and rolled back
analyze_day(current_time, rows, now, down, fault) ==
    LET current_price == get_bitcoin_price(current_time, now, down)
        previous_price == get_bitcoin_price(current_time - Day, now, down)
        significant ==
            /\ current_price # 0
            /\ previous_price # 0
            /\ RatLeq(threshold_percent,
                      RatAbs(PercentChange(current_price, previous_price)))
        row == PriceChange(current_time, Rat(previous_price, 1),
                           Rat(current_price, 1),
                           PercentChange(current_price, previous_price), None)
    IN  IF significant /\ ~fault THEN Append(rows, row) ELSE rows

\* the while loop of analyze_price_changes
RECURSIVE analyze_price_changes(_, _, _, _, _, _)
analyze_price_changes(current_time, end_date, rows, now, down, failing) ==
    IF current_time > end_date THEN rows
    ELSE analyze_price_changes(current_time + Day, end_date,
             analyze_day(current_time, rows, now, down, current_time \in failing),
             now, down, failing)

\* the timestamps the loop visits, with the day before each
RECURSIVE Visited(_, _)
Visited(current_time, end_date) ==
    IF current_time > end_date THEN {}
    ELSE {current_time, current_time - Day} \cup Visited(current_time + Day, end_date)

\* exchange outages of a run: none, one lookup, all of them
DownPatterns(start_date, end_date) ==
    {{}, Visited(start_date, end_date)}
        \cup {{t} : t \in Visited(start_date, end_date)}

\* get_last_significant_change: order_by(timestamp.desc()).first(), 0 for None
get_last_significant_change(rows) ==
    IF rows = <<>> THEN 0
    ELSE CHOOSE i \in DOMAIN rows :
           /\ \A j \in DOMAIN rows : rows[j].timestamp <= rows[i].timestamp
           /\ \A j \in DOMAIN rows : rows[j].timestamp = rows[i].timestamp => i <= j

\* when main() may run
Nows == {8 * Day, 8 * Day + 1, 9 * Day}

\* what page 0 of the news API may hold
NewsItems ==
    {[published_on |-> 8 * Day - 3, title |-> "a"],
     [published_on |-> 8 * Day - 1, title |-> "b"]}

\* a set of news items as the list the API returns, newest first
RECURSIVE NewsList(_)
NewsList(S) ==
    IF S = {} THEN <<>>
    ELSE LET n == CHOOSE x \in S : \A y \in S : y.published_on <= x.published_on
         IN  <<n>> \o NewsList(S \ {n})

\* _collect_from_cryptocompare: the items of the page inside the period, as events
RECURSIVE CollectFromCryptocompare(_, _, _)
CollectFromCryptocompare(items, start_date, end_date) ==
    IF items = <<>> THEN <<>>
    ELSE LET n == Head(items)
             rest == CollectFromCryptocompare(Tail(items), start_date, end_date)
         IN  IF start_date <= n.published_on /\ n.published_on <= end_date
             THEN <<Event(n.published_on, "news", "cryptocompare", n.title, None)>> \o rest
             ELSE rest

\* collect_news: save_event for each collected event, without a lookup; a
\* failing save is logged and the loop continues
RECURSIVE SaveEach(_, _, _, _)
SaveEach(rows, source_events, k, failing) ==
    IF source_events = <<>> THEN rows
    ELSE SaveEach(IF k \in failing THEN rows ELSE Append(rows, Head(source_events)),
                  Tail(source_events), k + 1, failing)

\* the methods DatabaseManager defines
DatabaseManagerMethods ==
    {"save_price_change", "save_event", "save_correlation",
     "get_price_change_by_unique", "get_event_by_unique",
     "get_correlation_by_unique", "save_analysis_results",
     "get_price_changes", "get_events", "get_correlations"}

DriverIdle ==
    [pc |-> "idle", start_date |-> 0, end_date |-> 0,
     last_price_change |-> 0, error |-> "none",
     current_time |-> 0, down |-> {}, visits |-> <<>>, before |-> <<>>]

\* at most one commit of a step fails
FailingPatterns(keys) ==
    IF hist.faults < MaxFaults THEN {{}} \cup {{k} : k \in keys} ELSE {{}}

\* main, lines 29-30
MainStart(now) ==
    /\ driver.pc \in {"idle", "closed"}
    /\ hist.runs < MaxRuns
    /\ driver.end_date < now
    /\ driver' = [DriverIdle EXCEPT !.pc = "analyze_price_changes",
                                    !.end_date = now,
                                    !.start_date = now - WindowDays * Day]
    /\ hist' = [hist EXCEPT !.runs = @ + 1]
    /\ UNCHANGED <<price_changes, events, correlations, frame, scorer, annotator>>

\* main, lines 33-34
AnalyzePriceChanges ==
    /\ driver.pc = "analyze_price_changes"
    /\ \E down \in DownPatterns(driver.start_date, driver.end_date) :
       \E failing \in FailingPatterns(Visited(driver.start_date, driver.end_date)) :
         LET rows == analyze_price_changes(driver.start_date, driver.end_date,
                         price_changes, driver.end_date, down, failing)
             clean == analyze_price_changes(driver.start_date, driver.end_date,
                         price_changes, driver.end_date, down, {})
         IN  /\ failing # {} => rows # clean
             /\ price_changes' = rows
             /\ hist' = NoteFault(failing # {})
    /\ driver' = [driver EXCEPT !.pc = "get_last_significant_change"]
    /\ UNCHANGED <<events, correlations, frame, scorer, annotator>>

\* analyze_price_changes called on its own: the periods asked for, whole
\* days and not, the empty period among them, and the time of the call
PriceStarts == {10 * Day, 10 * Day + 1}

PriceEnds == {10 * Day - 1, 11 * Day, 13 * Day}

PricesNow == 13 * Day

\* analyze_price_changes(start_date, end_date): current_time = start_date
CallAnalyzePriceChanges(start_date, end_date) ==
    /\ driver.pc \in {"idle", "analyzed"}
    /\ hist.runs < MaxRuns
    /\ \E down \in DownPatterns(start_date, end_date) :
         driver' = [DriverIdle EXCEPT !.pc = "while", !.start_date = start_date,
                                      !.end_date = end_date,
                                      !.current_time = start_date,
                                      !.down = down, !.before = price_changes]
    /\ hist' = [hist EXCEPT !.runs = @ + 1]
    /\ UNCHANGED <<price_changes, events, correlations, frame, scorer, annotator>>

\* one iteration of the while loop, lines 63-76
AnalyzeDay ==
    /\ driver.pc = "while"
    /\ driver.current_time <= driver.end_date
    /\ \E fault \in Faults :
         LET t == driver.current_time
             rows == analyze_day(t, price_changes, PricesNow, driver.down, fault)
         IN  /\ fault => rows # analyze_day(t, price_changes, PricesNow, driver.down, FALSE)
             /\ price_changes' = rows
             /\ hist' = NoteFault(fault)
             /\ driver' = [driver EXCEPT
                    !.current_time = t + Day,
                    !.visits = Append(@,
                        [day |-> t,
                         current_price |-> get_bitcoin_price(t, PricesNow, driver.down),
                         previous_price |-> get_bitcoin_price(t - Day, PricesNow, driver.down),
                         fault |-> fault])]
    /\ UNCHANGED <<events, correlations, frame, scorer, annotator>>

\* the loop condition fails: analyze_price_changes returns
ExitLoop ==
    /\ driver.pc = "while"
    /\ driver.current_time > driver.end_date
    /\ driver' = [driver EXCEPT !.pc = "analyzed"]
    /\ UNCHANGED <<price_changes, events, correlations, frame, hist, scorer, annotator>>

\* main, lines 37-39 and 51-52
GetLastSignificantChange ==
    /\ driver.pc = "get_last_significant_change"
    /\ LET last == get_last_significant_change(price_changes)
       IN  driver' = [driver EXCEPT !.last_price_change = last,
                         !.pc = IF last # 0 THEN "collect_news" ELSE "closed"]
    /\ UNCHANGED <<price_changes, events, correlations, frame, hist, scorer, annotator>>

\* main, lines 41-42, with the source cryptocompare enabled
CollectNews ==
    /\ driver.pc = "collect_news"
    /\ \E page \in SUBSET NewsItems :
         LET source_events == CollectFromCryptocompare(NewsList(page),
                                  driver.start_date, driver.end_date)
         IN  \E failing \in FailingPatterns(1 .. Len(source_events)) :
               /\ events' = SaveEach(events, source_events, 1, failing)
               /\ hist' = NoteFault(failing # {})
    /\ driver' = [driver EXCEPT !.pc = "analyze_causes"]
    /\ UNCHANGED <<price_changes, correlations, frame, scorer, annotator>>

\* main, lines 45-50 and 54-57: analyze_causes() starts with
\* find_relevant_events(None), which calls db_manager.get_all_events(); the
\* exception of a failing analysis is logged by main and the session closed
AnalyzeCauses ==
    /\ driver.pc = "analyze_causes"
    /\ driver' = [driver EXCEPT !.pc = "closed",
                     !.error = IF "get_all_events" \in DatabaseManagerMethods
                               THEN "none" ELSE "AttributeError"]
    /\ UNCHANGED <<price_changes, events, correlations, frame, hist, scorer, annotator>>

-----------------------------------------------------------------------------
(* Specifications                                                          *)

InitStore ==
    /\ price_changes = <<>>
    /\ events = <<>>
    /\ correlations = <<>>
    /\ frame = [w \in Writers |-> FrameIdle]
    /\ hist = HistInit

\* one writer, one call after the other
Init ==
    /\ InitStore
    /\ scorer = ScorerIdle
    /\ driver = DriverIdle
    /\ annotator = AnnotatorIdle

Next ==
    \/ \E via \in Vias, pch \in PayloadPriceChanges,
          corrs \in SeqsUpTo(PayloadCorrelations, MaxCorrelations) :
            Call(1, via, pch, corrs, MaxCalls)
    \/ Step(1)

Spec == Init /\ [][Next]_vars

\* one writer, payloads that differ from the stored rows outside the keys
NextReuse ==
    \/ \E pch \in ReusePriceChanges,
          corrs \in SeqsUpTo(ReuseCorrelations, MaxCorrelations) :
            Call(1, "DatabaseManager", pch, corrs, MaxCalls)
    \/ Step(1)

SpecReuse == Init /\ [][NextReuse]_vars

\* two writers on the same storage, one call each, their steps interleaved
MaxRaceCorrelations == 1

NextRace ==
    \/ \E w \in Writers, pch \in PayloadPriceChanges,
          corrs \in SeqsUpTo(PayloadCorrelations, MaxRaceCorrelations) :
            /\ frame[w].pc = "idle"
            /\ Call(w, "DatabaseManager", pch, corrs, MaxCalls)
    \/ \E w \in Writers : Step(w)

SpecRace == Init /\ [][NextRace]_vars

\* one call of analyze_influences on each input
InitScorer ==
    /\ InitStore
    /\ driver = DriverIdle
    /\ annotator = AnnotatorIdle
    /\ \E T \in PriceChangeDates, P \in PriceChangePercents,
          evs \in SeqsUpTo(ScorerEvents, MaxEvents) :
            scorer = ScorerCalled(T, P, evs)

NextScorer ==
    \/ ScoreEvent
    \/ SortAndReturn

SpecScorer == InitScorer /\ [][NextScorer]_vars

\* main() run again and again
NextPipeline ==
    \/ \E now \in Nows : MainStart(now)
    \/ AnalyzePriceChanges
    \/ GetLastSignificantChange
    \/ CollectNews
    \/ AnalyzeCauses

SpecPipeline == Init /\ [][NextPipeline]_vars

\* analyze_influences called twice on each input
InitRescore ==
    /\ InitStore
    /\ driver = DriverIdle
    /\ annotator = AnnotatorIdle
    /\ \E T \in PriceChangeDates, P \in PriceChangePercents,
          evs \in SeqsUpTo(RescoredEvents, MaxEvents) :
            scorer = ScorerCalled(T, P, evs)

NextRescore ==
    \/ ScoreEvent
    \/ SortAndReturn
    \/ AnalyzeInfluencesAgain

SpecRescore == InitRescore /\ [][NextRescore]_vars

\* analyze_influences on events of every type
InitTags ==
    /\ InitStore
    /\ driver = DriverIdle
    /\ annotator = AnnotatorIdle
    /\ \E T \in PriceChangeDates, P \in PriceChangePercents,
          evs \in SeqsUpTo(TaggedEvents, MaxEvents) :
            scorer = ScorerCalled(T, P, evs)

SpecTags == InitTags /\ [][NextScorer]_vars

\* analyze_sentiments on each input, then on its own output
InitSentiments ==
    /\ InitStore
    /\ scorer = ScorerIdle
    /\ driver = DriverIdle
    /\ \E evs \in SeqsUpTo(SentimentEvents, MaxEvents) :
            annotator = AnnotatorCalled(evs)

NextSentiments ==
    \/ AnnotateEvent
    \/ ReturnResult
    \/ AnalyzeSentimentsAgain

SpecSentiments == InitSentiments /\ [][NextSentiments]_vars

\* analyze_price_changes called for one period after the other
NextPrices ==
    \/ \E start_date \in PriceStarts, end_date \in PriceEnds :
            CallAnalyzePriceChanges(start_date, end_date)
    \/ AnalyzeDay
    \/ ExitLoop

\* the loop is sequential code: an iteration that can run does run
SpecPrices ==
    Init /\ [][NextPrices]_vars /\ WF_vars(AnalyzeDay) /\ WF_vars(ExitLoop)

-----------------------------------------------------------------------------
(* Properties                                                              *)

SameKeyPriceChange(a, b) ==
    a.timestamp = b.timestamp /\ RatEq(a.percentage_change, b.percentage_change)

SameKeyEvent(a, b) ==
    /\ a.timestamp = b.timestamp
    /\ a.event_type = b.event_type
    /\ a.source = b.source
    /\ a.description = b.description

SameKeyCorrelation(a, b) ==
    a.event_id = b.event_id /\ a.price_change_id = b.price_change_id

NoDuplicatePriceChanges ==
    \A i, j \in DOMAIN price_changes :
        SameKeyPriceChange(price_changes[i], price_changes[j]) => i = j

NoDuplicateEvents ==
    \A i, j \in DOMAIN events : SameKeyEvent(events[i], events[j]) => i = j

NoDuplicateCorrelations ==
    \A i, j \in DOMAIN correlations :
        SameKeyCorrelation(correlations[i], correlations[j]) => i = j

PriceChangeIds(pch) ==
    {i \in DOMAIN price_changes : SameKeyPriceChange(price_changes[i], pch)}

EventIds(e) == {i \in DOMAIN events : SameKeyEvent(events[i], e)}

CorrelationIds(e, pch) ==
    {i \in DOMAIN correlations :
        /\ correlations[i].event_id \in EventIds(e)
        /\ correlations[i].price_change_id \in PriceChangeIds(pch)}

Range(q) == {q[i] : i \in DOMAIN q}

\* C1: when save_analysis_results has been called twice in a row with the
\* same payload (no storage fault in either call), then after the second
\* call the store holds exactly one price-change row for the payload's
\* (timestamp, percentage_change), exactly one event row for each event of
\* the payload, exactly one correlation row for each (event, price change)
\* pair of the payload, and the second call has added no row.
C1_SaveTwiceIsIdempotent ==
    \A w \in Writers :
        LET f == frame[w]
        IN  (f.pc = "done" /\ f.repeat /\ ~f.faulted) =>
              /\ Cardinality(PriceChangeIds(f.price_change)) = 1
              /\ \A c \in Range(f.correlations) :
                    /\ Cardinality(EventIds(c.event)) = 1
                    /\ Cardinality(CorrelationIds(c.event, f.price_change)) = 1
              /\ Store = f.before

\* C2: a save_analysis_results call that ended in an error has left the
\* store exactly as it was when the call started.
C2_FailedCallLeavesStoreUnchanged ==
    \A w \in Writers :
        (frame[w].pc = "done" /\ frame[w].raised) => Store = frame[w].before

\* C4: over repeated runs of main(), no two price-change rows share
\* (timestamp, percentage_change) and no two event rows share
\* (timestamp, event_type, source, description).
C4_PipelineKeepsNaturalKeysUnique ==
    NoDuplicatePriceChanges /\ NoDuplicateEvents

\* C5: whenever DatabaseManager.save_analysis_results ended in an error, the
\* caller of the layer it was entered through (DatabaseManager itself or
\* EventAnalyzer.save_analysis_results) has seen the error raised.
C5_FailureReachesTheCaller ==
    \A w \in Writers :
        (frame[w].pc = "done" /\ frame[w].raised) => frame[w].seen = "raised"

ScorerFinished == scorer.pc \in {"returned", "raised"}

\* the event whose factors the scorer's frame holds
Scored == scorer.pc = "raised" \/ (scorer.pc # "idle" /\ scorer.i > 1)

ScoredEvent ==
    scorer.events[IF scorer.pc = "raised" THEN scorer.i ELSE scorer.i - 1]

\* C6: analyze_influences ends by returning, with one PriceEventCorrelation
\* for each event of its input.
C6_ScorerAlwaysReturns ==
    ScorerFinished =>
        scorer.pc = "returned" /\ Len(scorer.causes) = Len(scorer.events)

\* C7: every impact_score analyze_influences computes lies in [0, 1], and is
\* 1 when the product of the three factors exceeds 1.
C7_ImpactScoreInUnitInterval ==
    Scored =>
        /\ RatLeq(Zero, scorer.impact_score)
        /\ RatLeq(scorer.impact_score, One)
        /\ RatLt(One, scorer.product) => RatEq(scorer.impact_score, One)
        /\ \A k \in DOMAIN scorer.causes :
              /\ RatLeq(Zero, scorer.causes[k].impact_score)
              /\ RatLeq(scorer.causes[k].impact_score, One)

\* C7: an ETF event at the time of the price change, product 1.5, scored 1
C7_witness_CappedEtf ==
    /\ Scored
    /\ ScoredEvent.event_type = "ETF"
    /\ ScoredEvent.timestamp = scorer.price_change_date
    /\ RatEq(scorer.product, Rat(3, 2))
    /\ RatEq(scorer.impact_score, One)

\* C8: the sentiment factor is 1 without a sentiment score, |sentiment| when
\* sentiment and price change are both positive or both negative, and 1/2
\* for every other sentiment score.
C8_SentimentFactorTable ==
    Scored =>
        LET s == ScoredEvent.sentiment_score
            P == scorer.price_change_percent
        IN  CASE s = None -> RatEq(scorer.sentiment_factor, One)
              [] s # None /\ s[1] * P[1] > 0 ->
                    RatEq(scorer.sentiment_factor, RatAbs(s))
              [] OTHER -> RatEq(scorer.sentiment_factor, Rat(1, 2))

\* C8: a negative sentiment on a rising price is scored 1/2
C8_witness_OppositeSigns ==
    /\ Scored
    /\ ScoredEvent.sentiment_score # None
    /\ ScoredEvent.sentiment_score[1] < 0
    /\ scorer.price_change_percent[1] > 0
    /\ RatEq(scorer.sentiment_factor, Rat(1, 2))

Bijections(n) ==
    {p \in [1 .. n -> 1 .. n] : \A a, b \in 1 .. n : p[a] = p[b] => a = b}

\* C9: analyze_influences returns its scored input events, permuted into
\* non-increasing impact_score, events of equal score in their input order.
C9_ReturnsStableRanking ==
    ScorerFinished =>
        /\ scorer.pc = "returned"
        /\ \E p \in Bijections(Len(scorer.events)) :
              /\ DOMAIN scorer.causes = DOMAIN scorer.events
              /\ \A k \in DOMAIN scorer.causes :
                    /\ scorer.causes[k].event = scorer.events[p[k]]
                    /\ RatEq(scorer.causes[k].impact_score,
                             ImpactScore(scorer.price_change_date,
                                         scorer.price_change_percent,
                                         scorer.events[p[k]]))
              /\ \A k, l \in DOMAIN scorer.causes :
                    k < l =>
                      /\ RatLeq(scorer.causes[l].impact_score,
                                scorer.causes[k].impact_score)
                      /\ RatEq(scorer.causes[l].impact_score,
                               scorer.causes[k].impact_score) => p[k] < p[l]

\* C10: as long as no save_analysis_results call has started while another
\* writer's call was under way, no table holds two rows with one natural key.
C10_SerializedCallsKeepKeysUnique ==
    ~hist.overlapped =>
        NoDuplicatePriceChanges /\ NoDuplicateEvents /\ NoDuplicateCorrelations

\* C10: two writers with the same price change both looked it up, found no
\* row, and inserted one each
C10_witness_BothInserted ==
    /\ hist.overlapped
    /\ frame[1].pc # "idle" /\ frame[2].pc # "idle"
    /\ frame[1].price_change = frame[2].price_change
    /\ frame[1].db_price_change # 0 /\ frame[2].db_price_change # 0
    /\ frame[1].db_price_change # frame[2].db_price_change
    /\ ~NoDuplicatePriceChanges

\* C11: a save_analysis_results call with correlations in its payload that
\* met no storage fault has returned without error, and for each correlation
\* of its payload the store then holds a correlation row that links the event
\* row of that event's natural key to the price-change row of the payload's
\* (timestamp, percentage_change); each such row the call added carries an
\* impact_score of the payload for that pair.
C11_CorrelationsAreSaved ==
    \A w \in Writers :
        LET f == frame[w]
        IN  (f.pc = "done" /\ ~f.faulted /\ f.correlations # <<>>) =>
              /\ ~f.raised
              /\ \A c \in Range(f.correlations) :
                    /\ CorrelationIds(c.event, f.price_change) # {}
                    /\ \A i \in CorrelationIds(c.event, f.price_change) :
                          i > Len(f.before[3]) =>
                            \E d \in Range(f.correlations) :
                                /\ SameKeyEvent(d.event, c.event)
                                /\ RatEq(correlations[i].impact_score, d.impact_score)

\* C12: the list analyze_sentiments returns has the length and the order of
\* its input; an event that had a sentiment_score is returned as it was; an
\* event that had none is returned with its timestamp, event_type, source
\* and description and a sentiment_score in [-1, 1]; and analyze_sentiments
\* applied to the list it returned returns an equal list.
C12_SentimentsFilledOnce ==
    annotator.pc = "returned" =>
        /\ Len(annotator.result) = Len(annotator.events)
        /\ \A k \in DOMAIN annotator.events :
              LET e == annotator.events[k]
                  r == annotator.result[k]
              IN  IF e.sentiment_score # None THEN r = e
                  ELSE /\ SameKeyEvent(r, e)
                       /\ r.sentiment_score # None
                       /\ RatLeq(Rat(-1, 1), r.sentiment_score)
                       /\ RatLeq(r.sentiment_score, One)
        /\ annotator.call = 2 =>
              /\ annotator.events = annotator.first
              /\ annotator.result = annotator.first

\* C12: a list mixing an event without a score and one with the score 0.0 has
\* been through analyze_sentiments twice; the first pass filled in a score
C12_witness_SecondPass ==
    /\ annotator.pc = "returned"
    /\ annotator.call = 2
    /\ \E k, l \in DOMAIN annotator.given :
          /\ annotator.given[k].sentiment_score = None
          /\ annotator.result[k].sentiment_score # None
          /\ annotator.given[l].sentiment_score = Zero
          /\ annotator.given[l].description = "good"

C15_EventTypeFactorTable ==
    Scored =>
        LET type == ScoredEvent.event_type
        IN  /\ RatEq(scorer.event_type_factor, Rat(3, 2)) <=> type = "ETF"
            /\ RatEq(scorer.event_type_factor, Rat(6, 5)) <=> type = "REGULATION"
            /\ type \notin {"ETF", "REGULATION"} =>
                  RatEq(scorer.event_type_factor, One)
            /\ type \in CollectorTags => RatEq(scorer.event_type_factor, One)

\* C15: an event tagged 'regulation' by the collector was scored with 1.0
C15_witness_LowercaseRegulation ==
    /\ Scored
    /\ ScoredEvent.event_type = "regulation"
    /\ RatEq(scorer.event_type_factor, One)

IsPrefix(p, q) == Len(p) <= Len(q) /\ \A i \in DOMAIN p : q[i] = p[i]

\* C16: every row that was in the store when a save_analysis_results call
\* started is still there with all its fields as they were, whatever the
\* payload carries; a row the call has added shares its natural key with no
\* row that was there before, and the price-change row and the event row the
\* call resolved for a key that was stored already are those stored rows.
C16_ExistingRowsAreLeftAlone ==
    \A w \in Writers :
        LET f == frame[w]
        IN  f.pc # "idle" =>
              /\ IsPrefix(f.before[1], price_changes)
              /\ IsPrefix(f.before[2], events)
              /\ IsPrefix(f.before[3], correlations)
              /\ \A j \in DOMAIN price_changes, i \in DOMAIN f.before[1] :
                    SameKeyPriceChange(price_changes[i], price_changes[j]) =>
                        j <= Len(f.before[1])
              /\ \A j \in DOMAIN events, i \in DOMAIN f.before[2] :
                    SameKeyEvent(events[i], events[j]) => j <= Len(f.before[2])
              /\ (f.db_price_change # 0
                    /\ \E i \in DOMAIN f.before[1] :
                          SameKeyPriceChange(f.before[1][i], f.price_change)) =>
                    f.db_price_change <= Len(f.before[1])
              /\ (f.pc \in {"get_correlation", "save_correlation"}
                    /\ \E i \in DOMAIN f.before[2] :
                          SameKeyEvent(f.before[2][i], f.correlations[f.i].event)) =>
                    f.db_event <= Len(f.before[2])

\* C16: a call resolved its price change and an event to rows stored by an
\* earlier call, whose price_before and sentiment_score differ from the
\* payload's
C16_witness_ReusedWithOtherValues ==
    \E w \in Writers :
        LET f == frame[w]
        IN  /\ f.pc = "get_correlation"
            /\ f.db_price_change \in DOMAIN f.before[1]
            /\ f.db_event \in DOMAIN f.before[2]
            /\ price_changes[f.db_price_change].price_before # f.price_change.price_before
            /\ events[f.db_event].sentiment_score = None
            /\ f.correlations[f.i].event.sentiment_score = Rat(8, 10)

\* C18: every correlation row references an event row and a price-change row
\* of the store; when save_analysis_results is about to write a correlation,
\* the two ids it writes are those of persisted rows with the natural keys of
\* the payload's event and price change; and no table has lost a row since a
\* call started.
C18_CorrelationsReferenceStoredRows ==
    /\ \A k \in DOMAIN correlations :
          /\ correlations[k].event_id \in DOMAIN events
          /\ correlations[k].price_change_id \in DOMAIN price_changes
    /\ \A w \in Writers :
          LET f == frame[w]
          IN  /\ f.pc = "save_correlation" =>
                    /\ f.db_event \in DOMAIN events
                    /\ SameKeyEvent(events[f.db_event], f.correlations[f.i].event)
                    /\ f.db_price_change \in DOMAIN price_changes
                    /\ SameKeyPriceChange(price_changes[f.db_price_change],
                                          f.price_change)
              /\ f.pc # "idle" =>
                    /\ Len(f.before[1]) <= Len(price_changes)
                    /\ Len(f.before[2]) <= Len(events)
                    /\ Len(f.before[3]) <= Len(correlations)

\* C18: a call is about to write a correlation between an event row and a
\* price-change row that it has inserted itself
C18_witness_BothRowsPersistedFirst ==
    \E w \in Writers :
        LET f == frame[w]
        IN  /\ f.pc = "save_correlation"
            /\ f.db_event = Len(f.before[2]) + 1
            /\ f.db_price_change = Len(f.before[1]) + 1
            /\ f.db_event \in DOMAIN events
            /\ f.db_price_change \in DOMAIN price_changes

\* C19: when a call that a storage fault ended part-way (after it had
\* committed rows) has been followed by a call with the same payload, and that
\* call met no storage fault, then it has returned without error and the
\* store holds what one successful call on the store from before the failed
\* attempt leaves: that store's rows, and exactly one row for the payload's
\* price change, for each of its events and for each of its pairs.
C19_RetryCompletesTheSave ==
    \A w \in Writers :
        LET f == frame[w]
        IN  (f.pc = "done" /\ f.retry /\ ~f.faulted) =>
              /\ ~f.raised
              /\ IsPrefix(f.origin[1], price_changes)
              /\ IsPrefix(f.origin[2], events)
              /\ IsPrefix(f.origin[3], correlations)
              /\ Cardinality(PriceChangeIds(f.price_change)) = 1
              /\ \A c \in Range(f.correlations) :
                    /\ Cardinality(EventIds(c.event)) = 1
                    /\ Cardinality(CorrelationIds(c.event, f.price_change)) = 1
              /\ \A i \in DOMAIN price_changes :
                    i > Len(f.origin[1]) =>
                        SameKeyPriceChange(price_changes[i], f.price_change)
              /\ \A i \in DOMAIN events :
                    i > Len(f.origin[2]) =>
                        \E c \in Range(f.correlations) : SameKeyEvent(events[i], c.event)

\* the visits of the loop that satisfy the test of lines 68-73
Significant(v) ==
    /\ v.current_price # 0
    /\ v.previous_price # 0
    /\ Abs(v.current_price - v.previous_price) * 100 * threshold_percent[2]
          >= threshold_percent[1] * v.previous_price

\* the visits are start_date, start_date + 1 day, ... in this order, none
\* after end_date, and none is missing once the loop has ended
VisitsEachDayOnce ==
    driver.pc \in {"while", "analyzed"} =>
        /\ \A k \in DOMAIN driver.visits :
              /\ driver.visits[k].day = driver.start_date + (k - 1) * Day
              /\ driver.visits[k].day <= driver.end_date
        /\ driver.current_time = driver.start_date + Len(driver.visits) * Day
        /\ driver.pc = "analyzed" => driver.current_time > driver.end_date

\* the days for which the call has stored a row
StoredDays ==
    {price_changes[i].timestamp :
        i \in (Len(driver.before) + 1) .. Len(price_changes)}

StoresCommittedDays ==
    driver.pc \in {"while", "analyzed"} =>
          /\ IsPrefix(driver.before, price_changes)
          /\ StoredDays =
                {v.day : v \in {u \in Range(driver.visits) :
                                    Significant(u) /\ ~u.fault}}
          /\ Len(price_changes) - Len(driver.before) = Cardinality(StoredDays)
          /\ \A i \in (Len(driver.before) + 1) .. Len(price_changes) :
                \E v \in Range(driver.visits) :
                    /\ v.day = price_changes[i].timestamp
                    /\ price_changes[i].price_before = Rat(v.previous_price, 1)
                    /\ price_changes[i].price_after = Rat(v.current_price, 1)

=============================================================================
